---- MODULE Spec2Model ----
(***************************************************************************)
(* Model of the asset ingestion pipeline of                                *)
(* src/scripts/download_nvidia_assets.py (class AssetPipeline).            *)
(*                                                                         *)
(* The pipeline walks the pack catalog; for each pack it downloads the     *)
(* archive, extracts it, locates the scene files, converts the first ten   *)
(* of them through a chain of two external tools and appends the records   *)
(* of the converted ones to an in-memory registry, which is written to     *)
(* disk after the loop.  The environment (network, file system, the two    *)
(* converter tools) is modelled by nondeterministic choices.               *)
(*                                                                         *)
(* The record field "name" (asset_name.replace('_',' ').title(), line 192) *)
(* is left out of the metadata records: no property below reads it.        *)
(***************************************************************************)
EXTENDS Integers, Sequences, FiniteSets, TLC

(***************************************************************************)
(* Bounds of the model.                                                    *)
(***************************************************************************)
\* number of scene files in the largest archive (one more than the cap)
BigTree == 11
\* how many times run() is called over the life of the directories
MaxRuns == 2
\* how many environment faults (I/O errors, vanishing tools) are injected
MaxFaults == 2
\* how many archive members a failing extraction leaves behind at most
MaxPartial == 1

(***************************************************************************)
(* Program constants.                                                      *)
(***************************************************************************)
\* usd_files[:10], line 185
AssetCap == 10

Tools == {"usd2gltf", "blender"}

Min(a, b) == IF a < b THEN a ELSE b

(***************************************************************************)
(* Pack catalogs.  NVIDIA_ASSETS is the catalog of the source; the two     *)
(* small catalogs are the configurations process_asset_pack(pack_id,       *)
(* config) is called with in the scenarios of the specification.           *)
(***************************************************************************)
NVIDIA_ASSETS ==
    << [id |-> "simready_warehouse_01", category |-> "warehouse",  physics |-> TRUE],
       [id |-> "simready_containers",   category |-> "industrial", physics |-> TRUE],
       [id |-> "simready_furniture",    category |-> "furniture",  physics |-> TRUE] >>

SINGLE_PACK ==
    << [id |-> "p1", category |-> "warehouse", physics |-> TRUE] >>

SHARED_CATEGORY ==
    << [id |-> "p1", category |-> "warehouse", physics |-> TRUE],
       [id |-> "p2", category |-> "warehouse", physics |-> FALSE] >>

(***************************************************************************)
(* Archive contents: the scene files of each pack in the order rglob       *)
(* traverses them once the archive is unpacked.  A file carries the set of *)
(* converter tools that exit non-zero on it.                               *)
(***************************************************************************)
SceneFile(dir, stem, ext, bad) ==
    [dir |-> dir, stem |-> stem, ext |-> ext, bad |-> bad]

BigFile(k) ==
    SceneFile("props", "prop" \o ToString(k), ".usd",
              (IF k % 2 = 0 THEN {"usd2gltf"} ELSE {}) \cup
              (IF k % 3 = 0 THEN {"blender"} ELSE {}))

ArchiveOf(pack_id) ==
    CASE pack_id = "simready_warehouse_01" -> [k \in 1..BigTree |-> BigFile(k)]
      [] pack_id = "simready_containers" ->
             << SceneFile("cargo", "box", ".usdz", {"usd2gltf", "blender"}),
                SceneFile("cargo", "container", ".usda", {}) >>
      [] pack_id = "simready_furniture" -> << >>
      [] pack_id = "p1" ->
             << SceneFile("scenes", "a", ".usd", {}),
                SceneFile("scenes", "b", ".usd", {"blender"}) >>
      [] pack_id = "p2" ->
             << SceneFile("more", "a", ".usdc", {}),
                SceneFile("props", "a", ".usd", {"usd2gltf"}),
                SceneFile("props", "c", ".usda", {"usd2gltf", "blender"}) >>

Catalogs == {NVIDIA_ASSETS, SINGLE_PACK, SHARED_CATEGORY}

VARIABLES
    packs,             \* the catalog run() iterates (NVIDIA_ASSETS.items())
    tools,             \* converter tools on PATH (what shutil.which finds)
    zip,               \* pack id -> state of downloads/usd/{id}.zip
    xdir,              \* pack id -> the directory downloads/usd/{id}/
    glb,               \* the converted files written under public/assets/
    registry,          \* self.registry: category -> sequence of records
    registryFile,      \* content of public/assets/asset_registry.json
    pc,                \* where run() is: "idle", "loop", "done", "crashed"
    p,                 \* index in packs of the pack the loop is at
    stage,             \* stage of each pack in the current run
    usd_files,         \* process_asset_pack: usd_files
    i,                 \* process_asset_pack: position in usd_files[:10]
    converted_assets,  \* process_asset_pack: converted_assets
    runs,              \* calls of run() so far
    faults,            \* environment faults injected so far
    writes,            \* calls of save_registry in the current run
    tally,             \* per pack of the current run: what happened to it
    exited,            \* asset ids whose converter subprocess exited with status 0
    born,              \* value of runs when this pipeline object was constructed
    lastCall           \* what the latest component call did

vars == << packs, tools, zip, xdir, glb, registry, registryFile, pc, p, stage,
           usd_files, i, converted_assets, runs, faults, writes, tally, exited,
           born, lastCall >>

PackIds(cat) == {cat[k].id : k \in 1..Len(cat)}

NoCall == [op |-> "none"]

NoTally == [downloads |-> 0, extracts |-> 0, located |-> -1, failed |-> 0,
            converted |-> << >>, added |-> 0, fault |-> "none"]

Terminal == {"CATALOGED", "FAILED"}


EmptyRegistry == [c \in {} |-> << >>]

(***************************************************************************)
(* Paths (lines 40-42, 55, 85, 187).                                       *)
(***************************************************************************)
zip_path(pack_id) == "downloads/usd/" \o pack_id \o ".zip"

extract_dir(pack_id) == "downloads/usd/" \o pack_id

gltf_output(category, asset_name) ==
    "public/assets/" \o category \o "/" \o asset_name \o ".glb"

(***************************************************************************)
(* download_asset_pack (lines 50-81).  z is the state of the archive file  *)
(* before the call, net what the network and the disk do during it.        *)
(* Result: the archive file after the call, the requests issued, whether   *)
(* the file was written, whether the call raised, and the value returned.  *)
(***************************************************************************)
NetOutcomes == {"ok", "connect_error", "http_error", "open_error", "stream_error"}

\* a download that does not look for the archive first
download_asset_pack_refetch(pack_id, z, net) ==
    CASE net = "ok" ->
           [zip |-> "complete", requests |-> 1, wrote |-> TRUE,
            raised |-> FALSE, ret |-> zip_path(pack_id)]
      [] net = "stream_error" ->
           [zip |-> "partial", requests |-> 1, wrote |-> TRUE,
            raised |-> TRUE, ret |-> "none"]
      [] OTHER ->
           [zip |-> z, requests |-> 1, wrote |-> FALSE,
            raised |-> TRUE, ret |-> "none"]

\* a download that fetches again unless the archive on disk is complete
download_asset_pack_validate(pack_id, z, net) ==
    IF z = "complete"
    THEN [zip |-> z, requests |-> 0, wrote |-> FALSE, raised |-> FALSE,
          ret |-> zip_path(pack_id)]
    ELSE CASE net = "ok" ->
                [zip |-> "complete", requests |-> 1, wrote |-> TRUE,
                 raised |-> FALSE, ret |-> zip_path(pack_id)]
           [] net = "stream_error" ->
                [zip |-> "partial", requests |-> 1, wrote |-> TRUE,
                 raised |-> TRUE, ret |-> "none"]
           [] OTHER ->
                [zip |-> z, requests |-> 1, wrote |-> FALSE,
                 raised |-> TRUE, ret |-> "none"]

\* a download that creates the archive file before it sends the request
download_asset_pack_touch(pack_id, z, net) ==
    IF z # "absent"
    THEN [zip |-> z, requests |-> 0, wrote |-> FALSE, raised |-> FALSE,
          ret |-> zip_path(pack_id)]
    ELSE CASE net = "ok" ->
                [zip |-> "complete", requests |-> 1, wrote |-> TRUE,
                 raised |-> FALSE, ret |-> zip_path(pack_id)]
           [] net = "open_error" ->
                [zip |-> "absent", requests |-> 0, wrote |-> FALSE,
                 raised |-> TRUE, ret |-> "none"]
           [] OTHER ->
                [zip |-> "partial", requests |-> 1, wrote |-> TRUE,
                 raised |-> TRUE, ret |-> "none"]

download_asset_pack(pack_id, z, net) ==
    IF z # "absent"
    THEN \* lines 57-59: already downloaded
         [zip |-> z, requests |-> 0, wrote |-> FALSE, raised |-> FALSE,
          ret |-> zip_path(pack_id)]
    ELSE CASE net = "ok" ->              \* lines 62-77
                [zip |-> "complete", requests |-> 1, wrote |-> TRUE,
                 raised |-> FALSE, ret |-> zip_path(pack_id)]
           [] net = "stream_error" ->    \* iter_content raises after open (68-70)
                [zip |-> "partial", requests |-> 1, wrote |-> TRUE,
                 raised |-> TRUE, ret |-> "none"]
           [] OTHER ->                   \* get / raise_for_status / open raise (62-68)
                [zip |-> "absent", requests |-> 1, wrote |-> FALSE,
                 raised |-> TRUE, ret |-> "none"]

(***************************************************************************)
(* extract_pack (lines 83-101).  d is the extraction directory before the  *)
(* call (whether it exists, and its files), z the archive file, tree the   *)
(* content of a complete archive, io what unpacking does and k the number  *)
(* of members a failing unpack leaves behind.                              *)
(***************************************************************************)
ExtractOutcomes == {"ok", "bad_zip", "extract_error"}

NoDir == [exists |-> FALSE, files |-> << >>]

Dir(files) == [exists |-> TRUE, files |-> files]

\* an extraction that unpacks over an existing directory
extract_pack_again(pack_id, d, z, tree, io, k) ==
    IF z # "complete" \/ io = "bad_zip"
    THEN [xdir |-> d, opened |-> TRUE, wrote |-> FALSE, raised |-> TRUE,
          ret |-> "none"]
    ELSE IF io = "extract_error"
    THEN [xdir |-> Dir(SubSeq(tree, 1, k)), opened |-> TRUE, wrote |-> TRUE,
          raised |-> TRUE, ret |-> "none"]
    ELSE [xdir |-> Dir(tree), opened |-> TRUE, wrote |-> TRUE, raised |-> FALSE,
          ret |-> extract_dir(pack_id)]

extract_pack(pack_id, d, z, tree, io, k) ==
    IF d.exists
    THEN \* lines 87-89: already extracted
         [xdir |-> d, opened |-> FALSE, wrote |-> FALSE, raised |-> FALSE,
          ret |-> extract_dir(pack_id)]
    ELSE IF z # "complete" \/ io = "bad_zip"
    THEN \* ZipFile(zip_path) raises on a truncated or corrupt archive (95)
         [xdir |-> NoDir, opened |-> TRUE, wrote |-> FALSE, raised |-> TRUE,
          ret |-> "none"]
    ELSE IF io = "extract_error"
    THEN \* extractall raises part way (96)
         [xdir |-> Dir(SubSeq(tree, 1, k)), opened |-> TRUE, wrote |-> TRUE,
          raised |-> TRUE, ret |-> "none"]
    ELSE [xdir |-> Dir(tree), opened |-> TRUE, wrote |-> TRUE, raised |-> FALSE,
          ret |-> extract_dir(pack_id)]

(***************************************************************************)
(* find_usd_files (lines 103-111): one recursive glob per extension, in    *)
(* the order of usd_extensions, the matches of each in traversal order.    *)
(***************************************************************************)
usd_extensions == << ".usd", ".usda", ".usdc", ".usdz" >>

HasExt(ext, files) ==
    LET keep(f) == f.ext = ext IN SelectSeq(files, keep)

find_usd_files(directory) ==
    HasExt(usd_extensions[1], directory) \o HasExt(usd_extensions[2], directory) \o
    HasExt(usd_extensions[3], directory) \o HasExt(usd_extensions[4], directory)

(***************************************************************************)
(* convert_usd_to_gltf (lines 113-155).  have is what shutil.which finds,  *)
(* race the tool that disappears between its probe and its invocation      *)
(* ("none" if none does), fsok whether convert.py can be written.          *)
(* status1/status2 are what each strategy comes to: "skipped" (tool not    *)
(* found by the probe), "zero" and "nonzero" (exit status of the           *)
(* subprocess), "notfound" (subprocess.run raises FileNotFoundError),      *)
(* "script_error" (write_text raises OSError), "unreached".                *)
(***************************************************************************)
\* a first strategy that starts usd2gltf without probing for it
Strategy1_unprobed(usd_file, have, race) ==
    IF race = "usd2gltf" \/ "usd2gltf" \notin have THEN "notfound"
    ELSE IF "usd2gltf" \in usd_file.bad THEN "nonzero"
    ELSE "zero"

Strategy1(usd_file, have, race) ==
    IF "usd2gltf" \notin have THEN "skipped"               \* line 118
    ELSE IF race = "usd2gltf" THEN "notfound"              \* line 120, not caught
    ELSE IF "usd2gltf" \in usd_file.bad THEN "nonzero"     \* lines 127-128
    ELSE "zero"                                            \* lines 125-126

Strategy2(usd_file, have, race, fsok) ==
    IF "blender" \notin have THEN "skipped"                \* line 131
    ELSE IF ~fsok THEN "script_error"                      \* line 140, not caught
    ELSE IF race = "blender" THEN "notfound"               \* line 142, not caught
    ELSE IF "blender" \in usd_file.bad THEN "nonzero"      \* lines 150-151
    ELSE "zero"                                            \* lines 148-149

Ran(tool, status) ==
    IF status \in {"zero", "nonzero", "notfound"}
    THEN << [tool |-> tool, status |-> status] >>
    ELSE << >>

Unavailable == "No USD converter available (tried: usd2gltf, blender)"

\* a result that counts a tool that ran as a success, whatever its exit status
ConvertResult_lenient(status1, status2) ==
    [status1 |-> status1,
     status2 |-> status2,
     events  |-> Ran("usd2gltf", status1) \o Ran("blender", status2),
     result  |-> IF {"zero", "nonzero"} \cap {status1, status2} # {} THEN "True"
                 ELSE IF status1 = "notfound" \/
                         status2 \in {"script_error", "notfound"} THEN "raise"
                 ELSE "False",
     log     |-> "none",
     prints  |-> << >>]

ConvertResult(status1, status2) ==
    [status1 |-> status1,
     status2 |-> status2,
     events  |-> Ran("usd2gltf", status1) \o Ran("blender", status2),
     result  |-> IF "zero" \in {status1, status2} THEN "True"            \* 126, 149
                 ELSE IF status1 = "notfound" \/
                         status2 \in {"script_error", "notfound"} THEN "raise"
                 ELSE "False",                                           \* 155
     log     |-> IF "zero" \in {status1, status2} \/ status1 = "notfound" \/
                    status2 \in {"script_error", "notfound"}
                 THEN "none"
                 ELSE Unavailable,                                       \* 153
     prints  |-> (IF status1 = "nonzero" THEN << "usd2gltf failed" >>     \* 128
                  ELSE << >>) \o
                 (IF status2 = "nonzero"
                  THEN << "Blender conversion failed" >> ELSE << >>)]     \* 151

\* a chain that goes on to Blender although usd2gltf succeeded
convert_usd_to_gltf_both(usd_file, have, race, fsok) ==
    LET status1 == Strategy1(usd_file, have, race)
        status2 == IF status1 = "notfound" THEN "unreached"
                   ELSE Strategy2(usd_file, have, race, fsok)
    IN  ConvertResult(status1, status2)

convert_usd_to_gltf(usd_file, have, race, fsok) ==
    LET status1 == Strategy1(usd_file, have, race)
        status2 == IF status1 \in {"zero", "notfound"} THEN "unreached"
                   ELSE Strategy2(usd_file, have, race, fsok)
    IN  ConvertResult(status1, status2)

(***************************************************************************)
(* The metadata record of a converted asset (lines 190-198).               *)
(***************************************************************************)
\* records whose public path is built from the pack id instead of the category
asset_metadata_pack_path(pack_id, config, asset_name) ==
    [id              |-> pack_id \o "_" \o asset_name,
     path            |-> "/assets/" \o pack_id \o "/" \o asset_name \o ".glb",
     category        |-> config.category,
     physics_enabled |-> config.physics,
     source          |-> "NVIDIA Omniverse",
     thumbnail       |-> "/assets/" \o pack_id \o "/" \o asset_name \o "_thumb.jpg"]

\* records that are all marked as physics-enabled, whatever the pack's flag
asset_metadata_physics_on(pack_id, config, asset_name) ==
    [id              |-> pack_id \o "_" \o asset_name,
     path            |-> "/assets/" \o config.category \o "/" \o asset_name \o ".glb",
     category        |-> config.category,
     physics_enabled |-> TRUE,
     source          |-> "NVIDIA Omniverse",
     thumbnail       |-> "/assets/" \o config.category \o "/" \o asset_name \o "_thumb.jpg"]

asset_metadata(pack_id, config, asset_name) ==
    [id              |-> pack_id \o "_" \o asset_name,
     path            |-> "/assets/" \o config.category \o "/" \o asset_name \o ".glb",
     category        |-> config.category,
     physics_enabled |-> config.physics,
     source          |-> "NVIDIA Omniverse",
     thumbnail       |-> "/assets/" \o config.category \o "/" \o asset_name \o "_thumb.jpg"]

(***************************************************************************)
(* The registry update that closes process_asset_pack (lines 201-204).     *)
(***************************************************************************)
\* an update that assigns the pack's list instead of extending the category's
update_registry_assign(reg, category, assets) ==
    [c \in DOMAIN reg \cup {category} |->
        IF c = category THEN assets ELSE reg[c]]

\* an update that leaves out the assets whose id the category already holds
update_registry_dedup(reg, category, assets) ==
    LET base == IF category \in DOMAIN reg THEN reg
                ELSE reg @@ (category :> << >>)
        known == {base[category][n].id : n \in 1..Len(base[category])}
        fresh(a) == a.id \notin known
    IN  [base EXCEPT ![category] = base[category] \o SelectSeq(assets, fresh)]

update_registry(reg, category, assets) ==
    LET base == IF category \in DOMAIN reg THEN reg
                ELSE reg @@ (category :> << >>)                  \* lines 202-203
    IN  [base EXCEPT ![category] = base[category] \o assets]     \* line 204

(***************************************************************************)
(* save_registry (lines 208-213): open(.., 'w') truncates the file, then   *)
(* json.dump writes the whole mapping.                                     *)
(***************************************************************************)
SaveOutcomes == {"ok", "open_error", "write_error"}

NoFile == [state |-> "absent", content |-> EmptyRegistry]

\* a save that keeps the records of the catalog already on disk
save_registry_merge(reg, file, io) ==
    CASE io = "ok" ->
           [file |-> [state |-> "saved",
                      content |-> [c \in DOMAIN file.content \cup DOMAIN reg |->
                          (IF c \in DOMAIN file.content THEN file.content[c] ELSE << >>)
                          \o (IF c \in DOMAIN reg THEN reg[c] ELSE << >>)]],
            raised |-> FALSE]
      [] io = "open_error"  -> [file |-> file, raised |-> TRUE]
      [] io = "write_error" -> [file |-> [state |-> "truncated", content |-> EmptyRegistry],
                                raised |-> TRUE]

\* a save that logs an I/O error instead of raising it
save_registry_swallow(reg, file, io) ==
    CASE io = "ok"          -> [file |-> [state |-> "saved", content |-> reg],
                                raised |-> FALSE]
      [] io = "open_error"  -> [file |-> file, raised |-> FALSE]
      [] io = "write_error" -> [file |-> [state |-> "truncated", content |-> EmptyRegistry],
                                raised |-> FALSE]

save_registry(reg, file, io) ==
    CASE io = "ok"          -> [file |-> [state |-> "saved", content |-> reg],
                                raised |-> FALSE]
      [] io = "open_error"  -> [file |-> file, raised |-> TRUE]
      [] io = "write_error" -> [file |-> [state |-> "truncated", content |-> EmptyRegistry],
                                raised |-> TRUE]

(***************************************************************************)
(* The loop of run() (lines 227-232): the pack the loop goes to after the  *)
(* pack at index k, whether process_asset_pack returned or raised.         *)
(***************************************************************************)
\* a loop that stops at the first pack that raises
next_pack_break(k, raised) == IF raised THEN Len(NVIDIA_ASSETS) + 1 ELSE k + 1

next_pack(k, raised) == k + 1

(***************************************************************************)
(* The for loop is exhausted at index k of n packs: line 234 is reached.   *)
(***************************************************************************)
\* a loop that leaves the last pack out
loop_done_early(k, n) == k >= n

loop_done(k, n) == k > n

(***************************************************************************)
(* usd_files[:10] (line 185).                                              *)
(***************************************************************************)
\* a loop over every located file
capped_all(files) == files

capped(files) == SubSeq(files, 1, Min(Len(files), AssetCap))

(***************************************************************************)
(* State after construction (__init__, lines 38-48): empty registry, the   *)
(* download and output directories exist and hold nothing yet.             *)
(***************************************************************************)
Init ==
    /\ packs \in Catalogs
    /\ tools \in SUBSET Tools
    /\ zip = [id \in PackIds(packs) |-> "absent"]
    /\ xdir = [id \in PackIds(packs) |-> NoDir]
    /\ glb = {}
    /\ registry = EmptyRegistry
    /\ registryFile = NoFile
    /\ pc = "idle"
    /\ p = 0
    /\ stage = [k \in 1..Len(packs) |-> "PENDING"]
    /\ usd_files = << >>
    /\ i = 0
    /\ converted_assets = << >>
    /\ runs = 0
    /\ faults = 0
    /\ writes = 0
    /\ tally = [k \in 1..Len(packs) |-> NoTally]
    /\ exited = {}
    /\ born = 0
    /\ lastCall = NoCall

InPack(st) == pc = "loop" /\ p \in 1..Len(packs) /\ stage[p] = st

Fault(n) == /\ faults + n <= MaxFaults
            /\ faults' = faults + n

\* a handler that sends a pack that raised through the stages again
PackEnds_retry(st, raised) ==
    /\ stage' = [stage EXCEPT ![p] = IF raised THEN "PENDING" ELSE st]
    /\ p' = IF raised THEN p ELSE next_pack(p, raised)
    /\ usd_files' = << >>
    /\ i' = 0
    /\ converted_assets' = << >>

\* a process_asset_pack that swallows the exception and goes on to locating
PackEnds_swallow(st, raised) ==
    /\ stage' = [stage EXCEPT ![p] = IF raised THEN "LOCATING" ELSE st]
    /\ p' = IF raised THEN p ELSE next_pack(p, raised)
    /\ usd_files' = << >>
    /\ i' = 0
    /\ converted_assets' = << >>

\* the pack at index p ends in stage st; the loop of run() moves on
PackEnds(st, raised) ==
    /\ stage' = [stage EXCEPT ![p] = st]
    /\ p' = next_pack(p, raised)
    /\ usd_files' = << >>
    /\ i' = 0
    /\ converted_assets' = << >>

(***************************************************************************)
(* run() is called (lines 215-227), on a pipeline that is not running.     *)
(***************************************************************************)
Run ==
    /\ pc \in {"idle", "done", "crashed"}
    /\ runs < MaxRuns
    /\ runs' = runs + 1
    /\ pc' = "loop"
    /\ p' = 1
    /\ stage' = [k \in 1..Len(packs) |-> "PENDING"]
    /\ tally' = [k \in 1..Len(packs) |-> NoTally]
    /\ writes' = 0
    /\ lastCall' = NoCall
    /\ UNCHANGED << packs, tools, zip, xdir, glb, registry, registryFile,
                    usd_files, i, converted_assets, faults, exited, born >>

(***************************************************************************)
(* A new pipeline object is constructed over the same directories          *)
(* (lines 38-48, 248).                                                     *)
(***************************************************************************)
NewPipeline ==
    /\ pc \in {"done", "crashed"}
    /\ runs < MaxRuns
    /\ pc' = "idle"
    /\ registry' = EmptyRegistry
    /\ exited' = {}
    /\ born' = runs
    /\ p' = 0
    /\ stage' = [k \in 1..Len(packs) |-> "PENDING"]
    /\ tally' = [k \in 1..Len(packs) |-> NoTally]
    /\ writes' = 0
    /\ lastCall' = NoCall
    /\ UNCHANGED << packs, tools, zip, xdir, glb, registryFile, usd_files, i,
                    converted_assets, runs, faults >>

(***************************************************************************)
(* The loop calls process_asset_pack for the next pack (lines 227-229,     *)
(* 163-170).                                                               *)
(***************************************************************************)
StartPack ==
    /\ InPack("PENDING")
    /\ stage' = [stage EXCEPT ![p] = "DOWNLOADING"]
    /\ lastCall' = NoCall
    /\ UNCHANGED << packs, tools, zip, xdir, glb, registry, registryFile, pc, p,
                    usd_files, i, converted_assets, runs, faults, writes, tally,
                    exited, born >>

(***************************************************************************)
(* Line 170: download_asset_pack; an exception goes up to run()'s handler. *)
(***************************************************************************)
Download ==
    /\ InPack("DOWNLOADING")
    /\ LET id == packs[p].id IN
       \E net \in (IF zip[id] = "absent" THEN NetOutcomes ELSE {"ok"}) :
         LET r == download_asset_pack(id, zip[id], net) IN
           /\ Fault(IF net = "ok" THEN 0 ELSE 1)
           /\ zip' = [zip EXCEPT ![id] = r.zip]
           /\ lastCall' = [op |-> "download", pack |-> id, before |-> zip[id],
                           net |-> net, requests |-> r.requests, wrote |-> r.wrote,
                           raised |-> r.raised, ret |-> r.ret]
           /\ IF r.raised
              THEN /\ PackEnds("FAILED", TRUE)
                   /\ tally' = [tally EXCEPT ![p].downloads = @ + 1,
                                             ![p].fault = "download"]
              ELSE /\ stage' = [stage EXCEPT ![p] = "EXTRACTING"]
                   /\ tally' = [tally EXCEPT ![p].downloads = @ + 1]
                   /\ UNCHANGED << p, usd_files, i, converted_assets >>
    /\ UNCHANGED << packs, tools, xdir, glb, registry, registryFile, pc, runs,
                    writes, exited, born >>

(***************************************************************************)
(* Line 173: extract_pack.                                                 *)
(***************************************************************************)
Extract ==
    /\ InPack("EXTRACTING")
    /\ LET id == packs[p].id
           tree == ArchiveOf(id)
           fresh == ~xdir[id].exists /\ zip[id] = "complete"
       IN
       \E io \in (IF fresh THEN ExtractOutcomes ELSE {"ok"}) :
       \E k \in (IF io = "extract_error" THEN 0..Min(MaxPartial, Len(tree)) ELSE {0}) :
         LET r == extract_pack(id, xdir[id], zip[id], tree, io, k) IN
           /\ Fault(IF io = "ok" THEN 0 ELSE 1)
           /\ xdir' = [xdir EXCEPT ![id] = r.xdir]
           /\ lastCall' = [op |-> "extract", pack |-> id, before |-> xdir[id],
                           opened |-> r.opened, wrote |-> r.wrote,
                           raised |-> r.raised, ret |-> r.ret]
           /\ IF r.raised
              THEN /\ PackEnds("FAILED", TRUE)
                   /\ tally' = [tally EXCEPT ![p].extracts = @ + 1,
                                             ![p].fault = "extract"]
              ELSE /\ stage' = [stage EXCEPT ![p] = "LOCATING"]
                   /\ tally' = [tally EXCEPT ![p].extracts = @ + 1]
                   /\ UNCHANGED << p, usd_files, i, converted_assets >>
    /\ UNCHANGED << packs, tools, zip, glb, registry, registryFile, pc, runs,
                    writes, exited, born >>

(***************************************************************************)
(* Lines 175-183: find_usd_files, then the category directory is made      *)
(* (mkdir may raise) and the conversion loop is entered.                   *)
(***************************************************************************)
Locate ==
    /\ InPack("LOCATING")
    /\ \E mk \in {"ok", "mkdir_error"} :
         LET found == find_usd_files(xdir[packs[p].id].files) IN
           /\ Fault(IF mk = "ok" THEN 0 ELSE 1)
           /\ lastCall' = [op |-> "locate", pack |-> packs[p].id, found |-> found]
           /\ IF mk = "mkdir_error"
              THEN /\ PackEnds("FAILED", TRUE)
                   /\ tally' = [tally EXCEPT ![p].located = Len(found),
                                             ![p].fault = "mkdir"]
              ELSE /\ stage' = [stage EXCEPT ![p] = "CONVERTING"]
                   /\ usd_files' = found
                   /\ i' = 1
                   /\ converted_assets' = << >>
                   /\ tally' = [tally EXCEPT ![p].located = Len(found)]
                   /\ UNCHANGED p
    /\ UNCHANGED << packs, tools, zip, xdir, glb, registry, registryFile, pc,
                    runs, writes, exited, born >>

(***************************************************************************)
(* One iteration of the conversion loop (lines 185-199).                   *)
(***************************************************************************)
\* a loop that puts each record into the registry as soon as it is converted
ConvertOne_eager ==
    /\ InPack("CONVERTING")
    /\ i <= Len(capped(usd_files))
    /\ \E race \in {"none"} \cup tools, fsok \in BOOLEAN :
         LET usd_file   == capped(usd_files)[i]
             config     == packs[p]
             asset_name == usd_file.stem                                   \* 186
             r == convert_usd_to_gltf(usd_file, tools, race, fsok)
             injected == (IF race = "none" THEN 0 ELSE 1) + (IF fsok THEN 0 ELSE 1)
         IN
           /\ injected <= 1
           /\ injected = 1 => r.result = "raise"
           /\ Fault(injected)
           /\ tools' = tools \ {race}
           /\ lastCall' = [op |-> "convert", pack |-> config.id, file |-> usd_file,
                           have |-> tools, status1 |-> r.status1,
                           status2 |-> r.status2, events |-> r.events,
                           result |-> r.result, log |-> r.log,
                           prints |-> r.prints]
           /\ glb' = IF r.result = "True"
                     THEN glb \cup {gltf_output(config.category, asset_name)}
                     ELSE glb
           /\ exited' = IF \E e \in 1..Len(r.events) : r.events[e].status = "zero"
                        THEN exited \cup {config.id \o "_" \o asset_name}
                        ELSE exited
           /\ CASE r.result = "True" ->
                     /\ converted_assets' = Append(converted_assets,
                            asset_metadata(config.id, config, asset_name))
                     /\ i' = i + 1
                     /\ tally' = [tally EXCEPT ![p].converted =
                                      Append(@, config.id \o "_" \o asset_name)]
                     /\ registry' = update_registry(registry, config.category,
                            << asset_metadata(config.id, config, asset_name) >>)
                     /\ UNCHANGED << stage, p, usd_files >>
                [] r.result = "False" ->
                     /\ i' = i + 1
                     /\ tally' = [tally EXCEPT ![p].failed = @ + 1]
                     /\ UNCHANGED << stage, p, usd_files, converted_assets,
                                     registry >>
                [] r.result = "raise" ->
                     /\ PackEnds("FAILED", TRUE)
                     /\ tally' = [tally EXCEPT ![p].failed = @ + 1,
                                               ![p].fault = "convert"]
                     /\ UNCHANGED registry
    /\ UNCHANGED << packs, zip, xdir, registryFile, pc, runs, writes, born >>

ConvertOne ==
    /\ InPack("CONVERTING")
    /\ i <= Len(capped(usd_files))
    /\ \E race \in {"none"} \cup tools, fsok \in BOOLEAN :
         LET usd_file   == capped(usd_files)[i]
             config     == packs[p]
             asset_name == usd_file.stem                                   \* 186
             r == convert_usd_to_gltf(usd_file, tools, race, fsok)
             injected == (IF race = "none" THEN 0 ELSE 1) + (IF fsok THEN 0 ELSE 1)
         IN
           /\ injected <= 1
           /\ injected = 1 => r.result = "raise"
           /\ Fault(injected)
           /\ tools' = tools \ {race}
           /\ lastCall' = [op |-> "convert", pack |-> config.id, file |-> usd_file,
                           have |-> tools, status1 |-> r.status1,
                           status2 |-> r.status2, events |-> r.events,
                           result |-> r.result, log |-> r.log,
                           prints |-> r.prints]
           /\ glb' = IF r.result = "True"
                     THEN glb \cup {gltf_output(config.category, asset_name)}
                     ELSE glb
           /\ exited' = IF \E e \in 1..Len(r.events) : r.events[e].status = "zero"
                        THEN exited \cup {config.id \o "_" \o asset_name}
                        ELSE exited
           /\ CASE r.result = "True" ->
                     /\ converted_assets' = Append(converted_assets,
                            asset_metadata(config.id, config, asset_name))
                     /\ i' = i + 1
                     /\ tally' = [tally EXCEPT ![p].converted =
                                      Append(@, config.id \o "_" \o asset_name)]
                     /\ UNCHANGED << stage, p, usd_files >>
                [] r.result = "False" ->
                     /\ i' = i + 1
                     /\ tally' = [tally EXCEPT ![p].failed = @ + 1]
                     /\ UNCHANGED << stage, p, usd_files, converted_assets >>
                [] r.result = "raise" ->
                     /\ PackEnds("FAILED", TRUE)
                     /\ tally' = [tally EXCEPT ![p].failed = @ + 1,
                                               ![p].fault = "convert"]
    /\ UNCHANGED << packs, zip, xdir, registry, registryFile, pc, runs, writes,
                    born >>

(***************************************************************************)
(* The loop is over: the registry is updated and process_asset_pack        *)
(* returns (lines 201-206).                                                *)
(***************************************************************************)
Catalog ==
    /\ InPack("CONVERTING")
    /\ i > Len(capped(usd_files))
    /\ registry' = update_registry(registry, packs[p].category, converted_assets)
    /\ tally' = [tally EXCEPT ![p].added = Len(converted_assets)]
    /\ lastCall' = [op |-> "catalog", pack |-> packs[p].id,
                    assets |-> converted_assets]
    /\ PackEnds("CATALOGED", FALSE)
    /\ UNCHANGED << packs, tools, zip, xdir, glb, registryFile, pc, runs, faults,
                    writes, exited, born >>

(***************************************************************************)
(* After the loop: save_registry (line 234); an exception leaves run().    *)
(***************************************************************************)
Save ==
    /\ pc = "loop"
    /\ loop_done(p, Len(packs))
    /\ \E io \in SaveOutcomes :
         LET r == save_registry(registry, registryFile, io) IN
           /\ Fault(IF io = "ok" THEN 0 ELSE 1)
           /\ registryFile' = r.file
           /\ pc' = IF r.raised THEN "crashed" ELSE "done"
           /\ lastCall' = [op |-> "save", before |-> registryFile, io |-> io,
                           raised |-> r.raised]
    /\ writes' = writes + 1
    /\ UNCHANGED << packs, tools, zip, xdir, glb, registry, p, stage, usd_files,
                    i, converted_assets, runs, tally, exited, born >>

Next ==
    \/ Run
    \/ NewPipeline
    \/ StartPack
    \/ Download
    \/ Extract
    \/ Locate
    \/ ConvertOne
    \/ Catalog
    \/ Save

Spec == Init /\ [][Next]_vars

(***************************************************************************)
(*                              Properties                                 *)
(***************************************************************************)

\* C1 - Idempotent download: when download_asset_pack is called for a pack
\* whose archive file already exists, the call issues no network request,
\* does not write the archive file (it is as it was before the call) and
\* returns the path of the existing archive.
C1_IdempotentDownload ==
    (lastCall.op = "download" /\ lastCall.before # "absent") =>
        /\ lastCall.requests = 0
        /\ ~lastCall.wrote
        /\ ~lastCall.raised
        /\ zip[lastCall.pack] = lastCall.before
        /\ lastCall.ret = zip_path(lastCall.pack)

C1_Witness ==
    /\ lastCall.op = "download"
    /\ lastCall.before = "complete"
    /\ lastCall.requests = 0

\* C2 - Idempotent extraction: when extract_pack is called for a pack whose
\* extraction directory already exists, the archive is not opened, nothing
\* is written (the directory is as it was before the call) and the existing
\* directory is returned.
C2_IdempotentExtraction ==
    (lastCall.op = "extract" /\ lastCall.before.exists) =>
        /\ ~lastCall.opened
        /\ ~lastCall.wrote
        /\ ~lastCall.raised
        /\ xdir[lastCall.pack] = lastCall.before
        /\ lastCall.ret = extract_dir(lastCall.pack)

C2_Witness ==
    /\ lastCall.op = "extract"
    /\ lastCall.before.exists
    /\ lastCall.before.files # << >>
    /\ ~lastCall.opened

InvokedTools(events) == {events[e].tool : e \in 1..Len(events)}

\* C3 - Converter fallback order: in a call of convert_usd_to_gltf, when
\* usd2gltf exits with status zero Blender is not invoked; when the call
\* returns False with Blender available, Blender was invoked; and usd2gltf
\* is never invoked after Blender.
C3_FallbackOrder ==
    lastCall.op = "convert" =>
        /\ lastCall.status1 = "zero" =>
              /\ "blender" \notin InvokedTools(lastCall.events)
              /\ lastCall.result = "True"
        /\ (lastCall.result = "False" /\ "blender" \in lastCall.have) =>
              "blender" \in InvokedTools(lastCall.events)
        /\ \A a, b \in 1..Len(lastCall.events) :
              (lastCall.events[a].tool = "blender" /\
               lastCall.events[b].tool = "usd2gltf") => b < a

C3_Witness ==
    /\ lastCall.op = "convert"
    /\ lastCall.have = Tools
    /\ lastCall.status1 = "zero"
    /\ lastCall.file.bad = {"blender"}

LoopOver == pc \in {"done", "crashed"} \/ (pc = "loop" /\ p > Len(packs))

RegistryIds(c) ==
    IF c \in DOMAIN registry
    THEN {registry[c][n].id : n \in 1..Len(registry[c])}
    ELSE {}

\* C4 - Per-asset isolation: a pack that has N located scene files and went
\* into converting them, of which M < N failed conversion (the call
\* returned False or raised), reaches CATALOGED and adds exactly N - M
\* entries to the registry.
C4_PerAssetIsolation ==
    \A k \in 1..Len(packs) :
        ( /\ stage[k] \in Terminal
          /\ tally[k].located >= 0
          /\ tally[k].fault \notin {"mkdir"}
          /\ tally[k].failed < tally[k].located ) =>
            /\ stage[k] = "CATALOGED"
            /\ tally[k].added = tally[k].located - tally[k].failed

\* C5 - Per-pack isolation: when the loop of run() is over every pack has
\* been visited (none is left PENDING), and every pack that comes after a
\* pack whose download failed and whose own processing raised nothing is
\* CATALOGED, with the record of each asset it converted in the registry
\* under its category.
C5_PerPackIsolation ==
    LoopOver =>
      \A k \in 1..Len(packs) :
        /\ stage[k] \in Terminal
        /\ ( /\ \E j \in 1..(k - 1) : tally[j].fault = "download"
             /\ tally[k].fault = "none" ) =>
              /\ stage[k] = "CATALOGED"
              /\ tally[k].located >= 0
              /\ Len(tally[k].converted) + tally[k].failed
                    = Min(tally[k].located, AssetCap)
              /\ \A n \in 1..Len(tally[k].converted) :
                    tally[k].converted[n] \in RegistryIds(packs[k].category)

C5_Witness ==
    /\ LoopOver
    /\ Len(packs) >= 2
    /\ tally[1].fault = "download"
    /\ stage[2] = "CATALOGED"
    /\ tally[2].converted # << >>
    /\ tally[2].failed > 0

IsPrefix(s, t) == Len(s) <= Len(t) /\ SubSeq(t, 1, Len(s)) = s

CatalogStep == InPack("CONVERTING") /\ stage'[p] = "CATALOGED"

\* C6 - Registry append-only: during the life of a pipeline object no step
\* removes, reorders or changes an entry of the registry; the step that
\* records a pack's assets leaves every other category as it was and makes
\* the pack's category its old sequence followed by the new entries in
\* conversion order (also when another pack filled that category before);
\* every other step leaves the registry unchanged.
C6_AppendOnly ==
    [][ pc' # "idle" =>
          /\ \A c \in DOMAIN registry :
                c \in DOMAIN registry' /\ IsPrefix(registry[c], registry'[c])
          /\ CatalogStep =>
                LET c == packs[p].category
                    old == IF c \in DOMAIN registry THEN registry[c] ELSE << >>
                IN  /\ DOMAIN registry' = DOMAIN registry \cup {c}
                    /\ registry'[c] = old \o converted_assets
                    /\ \A d \in DOMAIN registry \ {c} : registry'[d] = registry[d]
          /\ ~CatalogStep => registry' = registry
      ]_vars

C6_Witness ==
    /\ packs = SHARED_CATEGORY
    /\ "warehouse" \in DOMAIN registry
    /\ Len(registry["warehouse"]) >= 3
    /\ registry["warehouse"][1].id = "p1_a"
    /\ registry["warehouse"][Len(registry["warehouse"])].id = "p2_a"

AllVisited == \A k \in 1..Len(packs) : stage[k] \in Terminal

\* C7 - In every run save_registry writes the registry file exactly once,
\* after every pack has reached CATALOGED or FAILED, however many failed:
\* a run that is over has made exactly one write, a run still in its loop
\* none, and the file never changes while a pack is not yet terminal.
C7_SaveOnce ==
    /\ [](/\ writes <= 1
          /\ writes = 1 => AllVisited
          /\ pc \in {"done", "crashed"} => writes = 1
          /\ pc \in {"idle", "loop"} => writes = 0)
    /\ [][registryFile' # registryFile =>
            (AllVisited /\ writes = 0 /\ writes' = 1)]_vars

C7_Witness ==
    /\ pc = "done"
    /\ writes = 1
    /\ registryFile.state = "saved"
    /\ \E k \in 1..Len(packs) : stage[k] = "FAILED"
    /\ \E k \in 1..Len(packs) : stage[k] = "CATALOGED"

\* C8 - End-to-end scenario: a first run over the single pack p1 (category
\* "warehouse", scene files a.usd and b.usd) with usd2gltf not installed,
\* Blender succeeding on a.usd and failing on b.usd and no I/O error ends
\* with a registry, and a saved file, holding exactly one record, under
\* "warehouse", with id "p1_a" and path "/assets/warehouse/a.glb".
C8_EndToEnd ==
    ( /\ packs = SINGLE_PACK
      /\ tools = {"blender"}
      /\ runs = 1
      /\ faults = 0
      /\ pc = "done" ) =>
        /\ DOMAIN registry = {"warehouse"}
        /\ Len(registry["warehouse"]) = 1
        /\ registry["warehouse"][1].id = "p1_a"
        /\ registry["warehouse"][1].path = "/assets/warehouse/a.glb"
        /\ registry["warehouse"][1].category = "warehouse"
        /\ registryFile = [state |-> "saved", content |-> registry]
        /\ glb = {"public/assets/warehouse/a.glb"}

C8_Witness ==
    /\ packs = SINGLE_PACK
    /\ tools = {"blender"}
    /\ runs = 1
    /\ faults = 0
    /\ pc = "done"
    /\ tally[1].located = 2
    /\ tally[1].failed = 1
    /\ registryFile.state = "saved"

\* C9 - convert_usd_to_gltf never raises: every call returns True or False,
\* and returns False when neither strategy ended with exit status zero.
C9_ConvertNeverRaises ==
    lastCall.op = "convert" =>
        /\ lastCall.result \in {"True", "False"}
        /\ ("zero" \notin {lastCall.status1, lastCall.status2}) =>
              lastCall.result = "False"

StageSuccessor(s, t) ==
    \/ << s, t >> \in { << "PENDING", "DOWNLOADING" >>,
                       << "DOWNLOADING", "EXTRACTING" >>,
                       << "EXTRACTING", "LOCATING" >>,
                       << "LOCATING", "CONVERTING" >>,
                       << "CONVERTING", "CATALOGED" >> }
    \/ (t = "FAILED" /\ s \notin Terminal)

Active == {k \in 1..Len(packs) : stage[k] \notin Terminal \cup {"PENDING"}}

\* C10 - Within a run a pack only ever moves from a stage to the next one
\* of PENDING, DOWNLOADING, EXTRACTING, LOCATING, CONVERTING, CATALOGED, or
\* from a non-terminal stage to FAILED (all packs are PENDING again when a
\* run starts); at most one pack is in a stage other than PENDING,
\* CATALOGED and FAILED; the packs before the active one are terminal and
\* those after it PENDING; and every record in the registry or in
\* converted_assets is of an asset whose converter subprocess has exited
\* with status zero.
C10_StageOrder ==
    /\ [](/\ Cardinality(Active) <= 1
          /\ \A k \in Active : /\ k = p
                               /\ \A j \in 1..(k - 1) : stage[j] \in Terminal
                               /\ \A j \in (k + 1)..Len(packs) : stage[j] = "PENDING"
          /\ \A c \in DOMAIN registry : RegistryIds(c) \subseteq exited
          /\ \A n \in 1..Len(converted_assets) : converted_assets[n].id \in exited)
    /\ [][ IF pc = "loop"
           THEN \A k \in 1..Len(packs) :
                   stage'[k] = stage[k] \/ StageSuccessor(stage[k], stage'[k])
           ELSE \A k \in 1..Len(packs) : stage'[k] = "PENDING" ]_vars

C10_Witness ==
    /\ Len(packs) = 3
    /\ stage[1] = "FAILED"
    /\ tally[1].fault = "convert"
    /\ stage[2] = "CATALOGED"
    /\ stage[3] = "CONVERTING"
    /\ "industrial" \in DOMAIN registry
    /\ registry["industrial"] # << >>

\* C11 - A pack whose download or extraction raised is FAILED with no later
\* stage run for it (nothing located, no conversion called, no record
\* added; after a failed download no extraction either), the step that
\* raises takes the pack to FAILED and the loop to the next pack at once
\* with the registry untouched, and within a run download_asset_pack and
\* extract_pack are called at most once per pack.
C11_FailFastNoRetry ==
    /\ [](\A k \in 1..Len(packs) :
            /\ tally[k].downloads <= 1
            /\ tally[k].extracts <= 1
            /\ tally[k].fault \in {"download", "extract"} =>
                  /\ stage[k] = "FAILED"
                  /\ tally[k].located = -1
                  /\ tally[k].converted = << >>
                  /\ tally[k].failed = 0
                  /\ tally[k].added = 0
                  /\ p # k
            /\ tally[k].fault = "download" => tally[k].extracts = 0)
    /\ [][ (lastCall'.op \in {"download", "extract"} /\ lastCall'.raised) =>
              /\ stage'[p] = "FAILED"
              /\ p' = p + 1
              /\ registry' = registry ]_vars

C11_Witness ==
    /\ Len(packs) >= 2
    /\ tally[1].fault = "extract"
    /\ tally[1].downloads = 1
    /\ tally[1].extracts = 1
    /\ stage[1] = "FAILED"
    /\ stage[2] = "CONVERTING"

\* C12 - A pack whose download and extraction succeeded and whose files
\* went into conversion reaches CATALOGED, also when none of its assets
\* converts and when no scene file was located; a conversion in which no
\* tool succeeded leaves the pack in CONVERTING.
C12_CatalogedDespiteFailures ==
    /\ \A k \in 1..Len(packs) :
          ( /\ stage[k] \in Terminal
            /\ tally[k].located >= 0
            /\ tally[k].fault # "mkdir" ) => stage[k] = "CATALOGED"
    /\ (lastCall.op = "convert" /\ lastCall.result = "False") =>
          stage[p] = "CONVERTING"

ConvertCalls(k) == Len(tally[k].converted) + tally[k].failed

\* C13 - Per pack and run at most 10 conversion calls are made and at most
\* 10 records are added, however many scene files were located; the files
\* converted are the first ones in locator order (the n-th call gets the
\* n-th located file), and a pack in which nothing raised gets exactly
\* min(located, 10) calls.
C13_CapOfTen ==
    /\ \A k \in 1..Len(packs) :
          /\ ConvertCalls(k) <= AssetCap
          /\ tally[k].added <= AssetCap
          /\ Len(tally[k].converted) <= AssetCap
          /\ (stage[k] = "CATALOGED") =>
                ConvertCalls(k) = Min(tally[k].located, AssetCap)
    /\ Len(converted_assets) <= AssetCap
    /\ (lastCall.op = "convert" /\ lastCall.result # "raise") =>
          /\ i - 1 = ConvertCalls(p)
          /\ i - 1 <= AssetCap
          /\ lastCall.file = find_usd_files(xdir[lastCall.pack].files)[i - 1]

C13_Witness ==
    /\ \E k \in 1..Len(packs) :
          /\ stage[k] = "CATALOGED"
          /\ tally[k].located > AssetCap
          /\ ConvertCalls(k) = AssetCap
          /\ tally[k].added > 0
          /\ tally[k].added < AssetCap

\* C14 - save_registry overwrites: after a save that did not fail the file
\* holds exactly the in-memory registry of the moment of the call, whatever
\* the file held before.
C14_SaveOverwrites ==
    (lastCall.op = "save" /\ lastCall.io = "ok") =>
        /\ registryFile.state = "saved"
        /\ registryFile.content = registry

C14_Witness ==
    /\ lastCall.op = "save"
    /\ lastCall.io = "ok"
    /\ lastCall.before.state = "saved"
    /\ DOMAIN lastCall.before.content # {}
    /\ lastCall.before.content # registry
    /\ \E c \in DOMAIN lastCall.before.content :
          c \notin DOMAIN registry \/ Len(registry[c]) < Len(lastCall.before.content[c])

\* C15 - run() ends abnormally exactly when save_registry fails: an
\* exception of a pack's processing leaves run() in its loop (the pack is
\* FAILED and the loop goes on), and a failing write of the registry file
\* leaves run() as an exception.
C15_OnlySaveIsFatal ==
    /\ pc = "crashed" <=> (lastCall.op = "save" /\ lastCall.io # "ok")
    /\ (lastCall.op = "save" /\ lastCall.io # "ok") => lastCall.raised
    /\ \A k \in 1..Len(packs) :
          (tally[k].fault # "none" /\ writes = 0) =>
              (pc = "loop" /\ stage[k] = "FAILED")

C15_Witness ==
    /\ pc = "crashed"
    /\ lastCall.io = "write_error"
    /\ \E k \in 1..Len(packs) : tally[k].fault = "convert"
    /\ \E k \in 1..Len(packs) : stage[k] = "CATALOGED"

\* C16 - Per-asset errors are caught at the asset boundary: a pack in
\* which the conversion of one scene file raised is still CATALOGED, with
\* the records of the assets it converted in the registry.
C16_AssetBoundary ==
    \A k \in 1..Len(packs) :
        tally[k].fault = "convert" =>
            /\ stage[k] = "CATALOGED"
            /\ \A n \in 1..Len(tally[k].converted) :
                  tally[k].converted[n] \in RegistryIds(packs[k].category)

\* C17 - A converter tool that shutil.which does not find is skipped and
\* never started: in every call of convert_usd_to_gltf only tools found by
\* the probe are invoked; with usd2gltf absent and Blender present and
\* exiting with status zero the call returns True; with both absent no
\* subprocess is started and the call returns False.
C17_AbsentToolSkipped ==
    lastCall.op = "convert" =>
        /\ InvokedTools(lastCall.events) \subseteq lastCall.have
        /\ "usd2gltf" \notin lastCall.have => lastCall.status1 = "skipped"
        /\ ("blender" \notin lastCall.have /\ lastCall.status2 # "unreached") =>
              lastCall.status2 = "skipped"
        /\ ( /\ lastCall.have = {"blender"}
             /\ "blender" \notin lastCall.file.bad
             /\ lastCall.status2 \notin {"script_error", "notfound"} ) =>
              /\ lastCall.result = "True"
              /\ lastCall.events = << [tool |-> "blender", status |-> "zero"] >>
        /\ lastCall.have = {} =>
              /\ lastCall.events = << >>
              /\ lastCall.result = "False"

C17_Witness ==
    /\ lastCall.op = "convert"
    /\ lastCall.have = {"blender"}
    /\ lastCall.file.bad = {"usd2gltf"}
    /\ lastCall.result = "True"

\* C18 - Path existence is the only idempotency signal: an archive file
\* that exists, partial or complete, is never fetched again, rewritten or
\* removed, and an extraction directory that exists, partly or fully
\* unpacked, is never unpacked again or removed, in the run that left them
\* or in any later one; a download call that finds a partial archive issues
\* no request and returns it, and an extract call that finds a partly
\* unpacked directory does not open the archive and returns it.
C18_PresenceOnly ==
    /\ [][ \A id \in PackIds(packs) :
              /\ zip[id] # "absent" => zip'[id] = zip[id]
              /\ xdir[id].exists => xdir'[id] = xdir[id] ]_vars
    /\ []( /\ (lastCall.op = "download" /\ lastCall.before = "partial") =>
                 /\ lastCall.requests = 0
                 /\ ~lastCall.raised
                 /\ lastCall.ret = zip_path(lastCall.pack)
                 /\ stage[p] = "EXTRACTING"
           /\ ( /\ lastCall.op = "extract"
                /\ lastCall.before.exists
                /\ lastCall.before.files # ArchiveOf(lastCall.pack) ) =>
                 /\ ~lastCall.opened
                 /\ ~lastCall.raised
                 /\ lastCall.ret = extract_dir(lastCall.pack)
                 /\ stage[p] = "LOCATING" )

C18_Witness ==
    /\ runs = 2
    /\ Len(packs) >= 2
    /\ zip[packs[1].id] = "partial"
    /\ tally[1].downloads = 1
    /\ tally[1].fault = "extract"
    /\ lastCall.op = "extract"
    /\ lastCall.pack = packs[2].id
    /\ lastCall.before.exists
    /\ Len(lastCall.before.files) < Len(ArchiveOf(lastCall.pack))
    /\ ~lastCall.opened

Twice(s) ==
    /\ Len(s) % 2 = 0
    /\ SubSeq(s, 1, Len(s) \div 2) = SubSeq(s, Len(s) \div 2 + 1, Len(s))

\* C19 - run() neither resets nor deduplicates the registry: calling run()
\* leaves the registry of the pipeline object as it is, and after two runs
\* of the same object between which nothing changed (no I/O error, same
\* tools) every category holds the first run's records followed by the
\* same records again.
C19_RerunDuplicates ==
    /\ []( ( /\ born = 0
             /\ runs = 2
             /\ faults = 0
             /\ LoopOver ) =>
              /\ \A k \in 1..Len(packs) : packs[k].category \in DOMAIN registry
              /\ \A c \in DOMAIN registry : Twice(registry[c]) )
    /\ [][ (pc # "loop" /\ pc' = "loop") => registry' = registry ]_vars

C19_Witness ==
    /\ born = 0
    /\ runs = 2
    /\ faults = 0
    /\ pc = "done"
    /\ packs = NVIDIA_ASSETS
    /\ Len(registry["warehouse"]) >= 4
    /\ Len(registry["industrial"]) = 2
    /\ registry["furniture"] = << >>

\* C20 - within one pack every processed scene file is converted to its
\* own output path: two different located files of the pack never map to
\* the same output file, and no two records collected for the pack share an
\* id or a path.
C20_DistinctOutputs ==
    InPack("CONVERTING") =>
        /\ \A a, b \in 1..Len(capped(usd_files)) :
              capped(usd_files)[a] # capped(usd_files)[b] =>
                  gltf_output(packs[p].category, capped(usd_files)[a].stem)
                      # gltf_output(packs[p].category, capped(usd_files)[b].stem)
        /\ \A a, b \in 1..Len(converted_assets) :
              a # b => /\ converted_assets[a].id # converted_assets[b].id
                       /\ converted_assets[a].path # converted_assets[b].path

\* C21 - when convert_usd_to_gltf returns False, a tool that ran and exited
\* non-zero is reported apart from no tool being available: the "No USD
\* converter available" line is printed only when neither tool was found,
\* never after a tool was started and failed.
C21_DistinctDiagnostics ==
    (lastCall.op = "convert" /\ lastCall.result = "False"
                             /\ lastCall.log = Unavailable) =>
        /\ lastCall.have = {}
        /\ InvokedTools(lastCall.events) = {}
        /\ lastCall.prints = << >>

\* C22 - a pack's registry update is all-or-nothing: no step of
\* process_asset_pack other than the one that ends the pack CATALOGED
\* changes the registry, so a pack that ends FAILED, at whatever stage and
\* whatever it had converted, leaves the registry as it was when the pack
\* started: nothing added, and no key created for its category.
C22_AllOrNothing ==
    /\ [][ ( /\ pc = "loop"
             /\ p \in 1..Len(packs)
             /\ stage'[p] # "CATALOGED" ) => registry' = registry ]_vars
    /\ []( /\ \A k \in 1..Len(packs) :
                stage[k] = "FAILED" => tally[k].added = 0
           /\ (born = runs - 1 /\ pc = "loop") =>
                DOMAIN registry =
                    {packs[k].category : k \in {n \in 1..Len(packs) :
                                                  stage[n] = "CATALOGED"}} )

C22_Witness ==
    /\ born = runs - 1
    /\ pc = "loop"
    /\ p = 2
    /\ stage[1] = "FAILED"
    /\ tally[1].fault = "convert"
    /\ Len(tally[1].converted) >= 1
    /\ gltf_output(packs[1].category, "a") \in glb
    /\ packs[1].category \notin DOMAIN registry
    /\ lastCall.op = "convert"
    /\ lastCall.result = "raise"

Stems(pack_id) == {ArchiveOf(pack_id)[n].stem : n \in 1..Len(ArchiveOf(pack_id))}

\* the records a catalog allows under category c: one for each scene file
\* name of each of its packs of that category
Expected(cat, c) ==
    UNION { { [id              |-> cat[k].id \o "_" \o assetName,
               path            |-> "/assets/" \o c \o "/" \o assetName \o ".glb",
               category        |-> c,
               physics_enabled |-> cat[k].physics,
               source          |-> "NVIDIA Omniverse",
               thumbnail       |-> "/assets/" \o c \o "/" \o assetName \o "_thumb.jpg"] :
              assetName \in Stems(cat[k].id) } :
            k \in {n \in 1..Len(cat) : cat[n].category = c} }

Categories == {"warehouse", "industrial", "furniture"}

ExpectedRecords == [cat \in Catalogs |-> [c \in Categories |-> Expected(cat, c)]]

WellFormed(rec, c) == c \in Categories /\ rec \in ExpectedRecords[packs][c]

\* C23 - in every reachable state each record stored under registry key c
\* has category c, the id {pack id}_{asset name} of a configured pack of
\* category c, that pack's physics flag, and the path and thumbnail
\* /assets/{c}/{asset name}.glb and /assets/{c}/{asset name}_thumb.jpg; and
\* the category of every CATALOGED pack is a key of the registry, possibly
\* with an empty list.
C23_RecordsWellFormed ==
    /\ \A c \in DOMAIN registry :
         \A n \in 1..Len(registry[c]) : WellFormed(registry[c][n], c)
    /\ \A k \in 1..Len(packs) :
         stage[k] = "CATALOGED" => packs[k].category \in DOMAIN registry

C23_Witness ==
    /\ packs = SHARED_CATEGORY
    /\ stage = << "CATALOGED", "CATALOGED" >>
    /\ \E n, m \in 1..Len(registry["warehouse"]) :
         /\ registry["warehouse"][n].id = "p1_a"
         /\ registry["warehouse"][n].physics_enabled
         /\ registry["warehouse"][m].id = "p2_a"
         /\ ~registry["warehouse"][m].physics_enabled

\* C24 - a download that fails on connection establishment or on the HTTP
\* status creates no archive file (the file is opened only after the status
\* check) and fails the pack; and every download that finds no archive,
\* in a later run as in the first, sends the request.
C24_NoArchiveOnHttpFailure ==
    /\ ( lastCall.op = "download"
         /\ lastCall.net \in {"connect_error", "http_error"} ) =>
           /\ lastCall.before = "absent"
           /\ lastCall.requests = 1
           /\ lastCall.raised
           /\ ~lastCall.wrote
           /\ zip[lastCall.pack] = "absent"
           /\ \E k \in 1..Len(packs) :
                packs[k].id = lastCall.pack /\ stage[k] = "FAILED"
    /\ (lastCall.op = "download" /\ lastCall.before = "absent") =>
           lastCall.requests = 1

C24_Witness ==
    /\ packs = SINGLE_PACK
    /\ runs = 2
    /\ faults = 2
    /\ registryFile.state = "saved"
    /\ ~xdir["p1"].exists
    /\ lastCall.op = "download"
    /\ lastCall.before = "absent"
    /\ lastCall.net = "http_error"
    /\ lastCall.requests = 1
    /\ zip["p1"] = "absent"

ZeroExits(events) == {e \in 1..Len(events) : events[e].status = "zero"}

AssetId(pack_id, file) == pack_id \o "_" \o file.stem

\* C25 - every record corresponds to a scene file for which, earlier in the
\* life of the same pipeline object, exactly one converter strategy exited
\* with status zero: a record is collected only in the step in which
\* convert_usd_to_gltf returned True for that file, one of the first ten of
\* its pack, after exactly one zero exit; nothing is collected when it
\* returns False; and the registry never holds a record of a file for which
\* no tool exited zero or that lies beyond the cap.
C25_RecordsAreConversions ==
    /\ [][ (converted_assets' # converted_assets /\ converted_assets' # << >>) =>
              /\ lastCall'.op = "convert"
              /\ lastCall'.result = "True"
              /\ Cardinality(ZeroExits(lastCall'.events)) = 1
              /\ i <= AssetCap
              /\ lastCall'.file = usd_files[i]
              /\ converted_assets' = Append(converted_assets,
                     converted_assets'[Len(converted_assets')])
              /\ converted_assets'[Len(converted_assets')].id =
                     AssetId(lastCall'.pack, lastCall'.file) ]_vars
    /\ [][ ( /\ InPack("CONVERTING")
             /\ i' = i + 1
             /\ lastCall'.result = "False" ) =>
              /\ converted_assets' = converted_assets
              /\ registry' = registry ]_vars
    /\ []( /\ \A c \in DOMAIN registry : \A n \in 1..Len(registry[c]) :
                registry[c][n].id \in exited
           /\ \A n \in 1..Len(converted_assets) : converted_assets[n].id \in exited
           /\ \A k \in 1..Len(packs) :
                \A n \in 1..Len(ArchiveOf(packs[k].id)) :
                   n > AssetCap =>
                      AssetId(packs[k].id, ArchiveOf(packs[k].id)[n]) \notin exited
           /\ (lastCall.op = "convert" /\ lastCall.result = "False") =>
                ZeroExits(lastCall.events) = {} )

C25_Witness ==
    /\ packs = NVIDIA_ASSETS
    /\ tools = {"usd2gltf"}
    /\ born = 0
    /\ runs = 2
    /\ pc = "loop"
    /\ p = 3
    /\ {"warehouse", "industrial"} \subseteq DOMAIN registry
    /\ Len(registry["warehouse"]) = 10
    /\ Len(registry["industrial"]) = 2
    /\ "simready_containers_container" \in exited
    /\ "simready_containers_box" \notin exited
    /\ "simready_warehouse_01_prop2" \notin exited
    /\ "simready_warehouse_01_prop11" \notin exited

====
